---- MODULE Spec2Model ----
(***************************************************************************)
(* Purchase-order extraction workflow: the extractions table, the batch    *)
(* handler of the Process page, the Send handler of the Review page, and   *)
(* the flatten / unflatten helpers of the Review page.                     *)
(*                                                                         *)
(* Python values are modelled as follows.                                  *)
(*   dict with fixed keys   record; "k" in d is  "k" \in DOMAIN d          *)
(*   insertion-ordered dict sequence of entries [k |-> key, v |-> value]   *)
(*   list                   sequence                                       *)
(*   None / SQL NULL        the empty sequence <<>>, a present value v     *)
(*                          being <<v>> (extracted_data, reviewed_data and *)
(*                          the timestamps are held this way)              *)
(*   str that is split      sequence of one-character strings             *)
(*   other str              string                                         *)
(***************************************************************************)
EXTENDS Integers, Sequences, FiniteSets, TLC

VARIABLES
    extractions,   \* the BigQuery table: sequence of rows, row i has id i
    clock,         \* what datetime.utcnow() returns
    sap_api_url,   \* whether the environment sets SAP_API_URL
    session,       \* st.session_state of each browser session
    pc,            \* where each session's running script is blocked
    batch,         \* locals of the Process Documents handler
    send,          \* locals of the Send handler
    ui,            \* the outcome the Send handler last displayed, "" if none
    rt,            \* the flatten / unflatten round trip under test
    rv,            \* the build of a reviewed forest under test
    up,            \* the call of update_extraction under test
    authenticated, \* st.session_state["authenticated"] of each session
    pd             \* the call of process_document under test

vars == <<extractions, clock, sap_api_url, session, pc, batch, send, ui, rt, rv, up,
          authenticated, pd>>

----------------------------------------------------------------------------
(* Bounds                                                                  *)

MaxNodes == 3      \* nodes of a properties list under test
MaxRows == 1       \* rows of the extractions table
MaxFiles == 2      \* files of one upload batch
MaxClock == 1      \* ticks of the clock
MaxEntities == 2   \* entities of a processed document under review
MaxOccurrences == 3   \* entities of a document given to process_document

----------------------------------------------------------------------------
(* Python helpers                                                          *)

\* d.get(k, default) on a record
Get(d, k, default) == IF k \in DOMAIN d THEN d[k] ELSE default

\* k in d, on an insertion-ordered dict
HasKey(d, k) == \E i \in DOMAIN d : d[i].k = k

\* d[k] = v on an insertion-ordered dict: an existing key keeps its place
DictSet(d, k, v) ==
    IF HasKey(d, k)
    THEN [i \in DOMAIN d |-> IF d[i].k = k THEN [k |-> k, v |-> v] ELSE d[i]]
    ELSE Append(d, [k |-> k, v |-> v])

\* d.update(e)
RECURSIVE DictUpdate(_, _)
DictUpdate(d, e) ==
    IF e = <<>> THEN d
    ELSE DictUpdate(DictSet(d, Head(e).k, Head(e).v), Tail(e))

\* path.split("/")
RECURSIVE Split(_)
Split(path) ==
    IF \A i \in DOMAIN path : path[i] # "/" THEN <<path>>
    ELSE LET i == CHOOSE j \in DOMAIN path :
                      path[j] = "/" /\ \A m \in 1..(j - 1) : path[m] # "/"
         IN <<SubSeq(path, 1, i - 1)>> \o Split(SubSeq(path, i + 1, Len(path)))

----------------------------------------------------------------------------
(* Review page: flatten / unflatten of nested properties                   *)

\* Variant: the prefix of the parent is dropped
FlatKey_NoPrefix(prefix, name) == name

\* key = prop["name"] if not prefix else f"{prefix}/{prop['name']}"
FlatKey(prefix, name) == IF prefix = <<>> THEN name ELSE prefix \o <<"/">> \o name

\* prop.get("properties") is truthy
HasProperties(prop) == "properties" \in DOMAIN prop /\ prop.properties # <<>>

RECURSIVE FlattenFrom(_, _, _, _)
FlattenFrom(properties, prefix, i, flat) ==
    IF i > Len(properties) THEN flat
    ELSE LET prop == properties[i]
             key == FlatKey(prefix, prop.name)
             flat1 == DictSet(flat, key, Get(prop, "value", ""))
             flat2 == IF HasProperties(prop)
                      THEN DictUpdate(flat1,
                               FlattenFrom(prop.properties, key, 1, <<>>))
                      ELSE flat1
         IN FlattenFrom(properties, prefix, i + 1, flat2)

_flatten_properties(properties, prefix) == FlattenFrom(properties, prefix, 1, <<>>)

\* The intermediate tree of _unflatten_to_properties: an insertion-ordered
\* dict name -> {"value": v, "children": tree}, here a sequence of
\* [name, value, children].
TreeIndex(tree, name) == CHOOSE i \in DOMAIN tree : tree[i].name = name
TreeHas(tree, name) == \E i \in DOMAIN tree : tree[i].name = name

\* Variant: a node that gets a child loses its own value
RECURSIVE TreeInsert_ClearParent(_, _, _)
TreeInsert_ClearParent(tree, parts, value) ==
    IF Len(parts) = 1
    THEN IF TreeHas(tree, parts[1])
         THEN [tree EXCEPT ![TreeIndex(tree, parts[1])].value = value]
         ELSE Append(tree, [name |-> parts[1], value |-> value, children |-> <<>>])
    ELSE LET tree1 == IF TreeHas(tree, parts[1]) THEN tree
                      ELSE Append(tree, [name |-> parts[1], value |-> "",
                                         children |-> <<>>])
             i == TreeIndex(tree1, parts[1])
         IN [tree1 EXCEPT ![i].value = "",
                          ![i].children =
                              TreeInsert_ClearParent(@, Tail(parts), value)]

\* One iteration of `for path, value in flat_row.items()`
RECURSIVE TreeInsert(_, _, _)
TreeInsert(tree, parts, value) ==
    IF Len(parts) = 1
    THEN IF TreeHas(tree, parts[1])
         THEN [tree EXCEPT ![TreeIndex(tree, parts[1])].value = value]
         ELSE Append(tree, [name |-> parts[1], value |-> value, children |-> <<>>])
    ELSE LET tree1 == IF TreeHas(tree, parts[1]) THEN tree
                      ELSE Append(tree, [name |-> parts[1], value |-> "",
                                         children |-> <<>>])
             i == TreeIndex(tree1, parts[1])
         IN [tree1 EXCEPT ![i].children = TreeInsert(@, Tail(parts), value)]

RECURSIVE TreeOf(_, _)
TreeOf(flat_row, root) ==
    IF flat_row = <<>> THEN root
    ELSE TreeOf(Tail(flat_row),
                TreeInsert(root, Split(Head(flat_row).k), Head(flat_row).v))

\* Variant: every node built carries a confidence
RECURSIVE _build_Confidence(_)
_build_Confidence(tree) ==
    [i \in DOMAIN tree |->
        IF tree[i].children # <<>>
        THEN [name |-> tree[i].name, value |-> tree[i].value, confidence |-> 0,
              properties |-> _build_Confidence(tree[i].children)]
        ELSE [name |-> tree[i].name, value |-> tree[i].value, confidence |-> 0]]

RECURSIVE _build(_)
_build(tree) ==
    [i \in DOMAIN tree |->
        IF tree[i].children # <<>>
        THEN [name |-> tree[i].name, value |-> tree[i].value,
              properties |-> _build(tree[i].children)]
        ELSE [name |-> tree[i].name, value |-> tree[i].value]]

_unflatten_to_properties(flat_row) == _build(TreeOf(flat_row, <<>>))

----------------------------------------------------------------------------
(* Review page: the editable tables and the reviewed forest                *)
(* A forest is an insertion-ordered dict name -> data, data being          *)
(* [list |-> nodes] for a list and [dict |-> node] for a single dict.      *)

ValueKey == <<"v", "a", "l", "u", "e">>

DictGet(d, k) == d[CHOOSE i \in DOMAIN d : d[i].k = k].v

\* Variant: only a list is a line item field
IsLineItemField_ListOnly(data) == "list" \in DOMAIN data

\* isinstance(data, list) or (isinstance(data, dict) and "properties" in data)
IsLineItemField(data) ==
    \/ "list" \in DOMAIN data
    \/ "dict" \in DOMAIN data /\ "properties" \in DOMAIN data.dict

flat_fields(edit_source) ==
    SelectSeq(edit_source, LAMBDA e : ~IsLineItemField(e.v))

line_item_fields(edit_source) ==
    SelectSeq(edit_source, LAMBDA e : IsLineItemField(e.v))

\* The rows of the flat fields table (the read-only Confidence column is
\* display only and is left out)
field_rows(flat) ==
    [i \in DOMAIN flat |->
        [Field |-> flat[i].k, Value |-> Get(flat[i].v.dict, "value", "")]]

\* items if isinstance(items, list) else [items]
items_list(data) == IF "list" \in DOMAIN data THEN data.list ELSE <<data.dict>>

item_rows(items) ==
    [i \in DOMAIN items |->
        IF "properties" \in DOMAIN items[i]
        THEN _flatten_properties(items[i].properties, <<>>)
        ELSE <<[k |-> ValueKey, v |-> Get(items[i], "value", "")]>>]

\* pd.DataFrame(rows).fillna(""): the columns are the keys in order of
\* first appearance, a cell a row lacks is ""
RECURSIVE Columns(_, _)
Columns(rows, cols) ==
    IF rows = <<>> THEN cols
    ELSE Columns(Tail(rows),
                 cols \o SelectSeq([j \in DOMAIN Head(rows) |-> Head(rows)[j].k],
                                   LAMBDA c : \A m \in DOMAIN cols : cols[m] # c))

DataFrame(rows) ==
    LET cols == Columns(rows, <<>>)
    IN [i \in DOMAIN rows |->
           [j \in DOMAIN cols |->
               [k |-> cols[j],
                v |-> IF HasKey(rows[i], cols[j]) THEN DictGet(rows[i], cols[j])
                      ELSE ""]]]

\* What the user did in a data editor before pressing Send
Edits == {"none", "change"}

\* st.data_editor on the flat fields table: the Value column is editable
EditedFields(df, edit) ==
    IF edit = "change" /\ df # <<>> THEN [df EXCEPT ![1].Value = "z"] ELSE df

\* st.data_editor on a line items table (num_rows="dynamic"): every cell is
\* editable, a row can be added (here with every cell typed in) and a row
\* can be deleted (here the first)
EditedItems(df, edit) ==
    IF edit = "change" /\ df # <<>> /\ df[1] # <<>>
    THEN [df EXCEPT ![1][1].v = "z"]
    ELSE IF edit = "add_row" /\ df # <<>>
    THEN Append(df, [j \in DOMAIN df[1] |-> [k |-> df[1][j].k, v |-> "z"]])
    ELSE IF edit = "delete_row" /\ df # <<>>
    THEN Tail(df)
    ELSE df

\* Variant: the number of columns is not looked at
RowIsNested_NoLen(row_dict) ==
    \/ \E j \in DOMAIN row_dict : \E m \in DOMAIN row_dict[j].k : row_dict[j].k[m] = "/"
    \/ ~HasKey(row_dict, ValueKey)

\* has_nested or len(row_dict) > 1 or "value" not in row_dict
RowIsNested(row_dict) ==
    \/ \E j \in DOMAIN row_dict : \E m \in DOMAIN row_dict[j].k : row_dict[j].k[m] = "/"
    \/ Len(row_dict) > 1
    \/ ~HasKey(row_dict, ValueKey)

\* Variant: a row that is not nested is not appended
edited_rows_NestedOnly(df) ==
    LET nested == SelectSeq(df, RowIsNested)
    IN [i \in DOMAIN nested |->
           [properties |-> _unflatten_to_properties(nested[i])]]

edited_rows(df) ==
    [i \in DOMAIN df |->
        IF RowIsNested(df[i])
        THEN [properties |-> _unflatten_to_properties(df[i])]
        ELSE [value |-> DictGet(df[i], ValueKey)]]

\* The table the data editor of one group returns
edited_items_df(items, edit) ==
    EditedItems(DataFrame(item_rows(items_list(items))), edit)

\* edited_line_items: a group whose item_rows is empty gets no entry
edited_line_items(groups, edit) ==
    LET shown == SelectSeq(groups, LAMBDA g : item_rows(items_list(g.v)) # <<>>)
    IN [i \in DOMAIN shown |->
           [k |-> shown[i].k,
            v |-> [list |-> edited_rows(edited_items_df(shown[i].v, edit))]]]

\* Variant: a prior reviewed_data is ignored
EditSource_Extracted(review_result) ==
    Get(review_result, "extracted_data", <<<<>>>>)

\* fields = review_result.get("extracted_data", {}); reviewed =
\* review_result.get("reviewed_data"); reviewed if reviewed else fields.
\* The result is None (<<>>) when reviewed is falsy and extracted_data is None.
EditSource(review_result) ==
    LET fields == Get(review_result, "extracted_data", <<<<>>>>)
        reviewed == Get(review_result, "reviewed_data", <<>>)
    IN IF reviewed # <<>> /\ reviewed[1] # <<>> THEN reviewed ELSE fields

\* The reviewed_data dict the Send handler builds
BuildReviewedData(review_result, edit) ==
    LET edit_source == EditSource(review_result)[1]
        edited_df == EditedFields(field_rows(flat_fields(edit_source)), edit)
        flat == [i \in DOMAIN edited_df |->
                    [k |-> edited_df[i].Field,
                     v |-> [dict |-> [value |-> edited_df[i].Value,
                                      edited |-> TRUE]]]]
    IN DictUpdate(flat, edited_line_items(line_item_fields(edit_source), edit))

----------------------------------------------------------------------------
(* Services                                                                *)

\* The browser sessions
Sessions == {"s1"}

\* uploaded_file.name of the k-th file of an upload
FileName(k) == [stem |-> k, ext |-> "pdf"]

\* storage.upload_file: the gs:// URI of the uploaded blob
upload_file(filename) == [bucket |-> "uploads", blob |-> filename]

\* What document_ai.process_document may return: {"fields", "confidence"}
Extractions ==
    { [fields |->
          << [k |-> "po_number",
              v |-> [dict |-> [value |-> "PO-100", confidence |-> 95,
                               type |-> "po_number"]]],
             [k |-> "line_item",
              v |-> [list |->
                  << [value |-> "A1 3", confidence |-> 90, type |-> "line_item",
                      properties |->
                          << [name |-> <<"s", "k", "u">>, value |-> "A1",
                              confidence |-> 90],
                             [name |-> <<"q", "t", "y">>, value |-> "3",
                              confidence |-> 90] >>],
                     [value |-> "B2 1", confidence |-> 80, type |-> "line_item",
                      properties |->
                          << [name |-> <<"s", "k", "u">>, value |-> "B2",
                              confidence |-> 80],
                             [name |-> <<"q", "t", "y">>, value |-> "1",
                              confidence |-> 80] >>] >>]] >>,
       confidence |-> 88] }

\* Variant: the sent_at clause is missing from the UPDATE
SetClauses_NoSentAt(updates) ==
    {"reviewed_data", "status", "reviewed_at"} \cap DOMAIN updates

\* The columns an UPDATE of update_extraction can set
SetClauses(updates) ==
    {"reviewed_data", "status", "reviewed_at", "sent_at"} \cap DOMAIN updates

\* Variant: a row that is already SENT gets its status reset
ColumnValue_Revert(row, updates, col) ==
    IF col = "status"
    THEN IF row.status = "SENT" THEN "EXTRACTED" ELSE updates.status
    ELSE <<updates[col]>>

\* Variant: a sent_at that is already written is kept
ColumnValue_KeepSentAt(row, updates, col) ==
    IF col = "status" THEN updates.status
    ELSE IF col = "sent_at" /\ row.sent_at # <<>> THEN row.sent_at
    ELSE <<updates[col]>>

\* The value a SET clause stores in its column
ColumnValue(row, updates, col) ==
    IF col = "status" THEN updates.status ELSE <<updates[col]>>

\* bigquery.save_extraction: INSERT one row; uuid4 gives a fresh id, here
\* the next row number
save_extraction(table, record, now) ==
    Append(table,
        [id |-> Get(record, "id", Len(table) + 1),
         filename |-> record.filename,
         gcs_uri |-> record.gcs_uri,
         processor_name |-> record.processor_name,
         processor_display_name |-> Get(record, "processor_display_name", ""),
         status |-> Get(record, "status", "EXTRACTED"),
         extracted_data |-> <<record.extracted_data>>,
         reviewed_data |-> <<>>,
         confidence |-> Get(record, "confidence", 0),
         created_at |-> <<now>>,
         reviewed_at |-> <<>>,
         sent_at |-> <<>>])

\* Variant: the UPDATE also overwrites extracted_data with the reviewed forest
update_extraction_Overwrite(table, record_id, updates) ==
    [i \in DOMAIN table |->
        IF table[i].id = record_id
        THEN [col \in DOMAIN table[i] |->
                 IF col = "extracted_data" THEN <<updates.reviewed_data>>
                 ELSE IF col = "status" THEN updates.status
                 ELSE IF col \in DOMAIN updates THEN <<updates[col]>>
                 ELSE table[i][col]]
        ELSE table[i]]

\* Variant: the UPDATE skips a row that is already SENT (first writer wins)
update_extraction_FirstWins(table, record_id, updates) ==
    IF SetClauses(updates) = {} THEN table
    ELSE [i \in DOMAIN table |->
             IF table[i].id = record_id /\ table[i].status # "SENT"
             THEN [col \in DOMAIN table[i] |->
                      IF col \in SetClauses(updates)
                      THEN ColumnValue(table[i], updates, col)
                      ELSE table[i][col]]
             ELSE table[i]]

\* bigquery.update_extraction: one UPDATE ... SET <clauses> WHERE id = @record_id
update_extraction(table, record_id, updates) ==
    IF SetClauses(updates) = {} THEN table
    ELSE [i \in DOMAIN table |->
             IF table[i].id = record_id
             THEN [col \in DOMAIN table[i] |->
                      IF col \in SetClauses(updates)
                      THEN ColumnValue(table[i], updates, col)
                      ELSE table[i][col]]
             ELSE table[i]]

\* bigquery.get_extraction: the row with this id as a dict, or None
get_extraction(table, record_id) ==
    LET found == SelectSeq(table, LAMBDA row : row.id = record_id)
    IN IF found = <<>> THEN <<>> ELSE <<found[1]>>

\* Variant: the send raises when SAP_API_URL is not set
send_purchase_order_fails_Unset(api_url) == ~api_url

\* sap.send_purchase_order raises exactly when SAP_API_URL is set
send_purchase_order_fails(api_url) == api_url

----------------------------------------------------------------------------
(* Session state                                                           *)

\* review_result is None, a reference to an entry of the session's results
\* list, or a dict of its own
NoneRef == [kind |-> "none"]
ResultRef(k) == [kind |-> "ref", idx |-> k]
ObjRef(rec) == [kind |-> "obj", rec |-> rec]

NewSession ==
    [results |-> <<>>, review_result |-> NoneRef, review_record_id |-> <<>>]

\* The dict a review_result reference denotes
Deref(ss, ref) == IF ref.kind = "ref" THEN ss.results[ref.idx] ELSE ref.rec

\* d[k] = v on a dict, adding the key when it is missing
RecSet(d, k, v) == [x \in DOMAIN d \cup {k} |-> IF x = k THEN v ELSE d[x]]

NoBatch == [files |-> <<>>, i |-> 0, results |-> <<>>, saved |-> 0]
NoSend == [record_id |-> 0, reviewed_data |-> <<>>, now |-> 0]

----------------------------------------------------------------------------
(* Process page: the Process Documents handler                             *)

Outcomes == {"upload_error", "extract_error", "insert_error", "ok"}

\* Variant: a failed document is stored as a row with status ERROR
DocumentResult_StoreError(table, filename, outcome, extraction, now) ==
    LET table1 == save_extraction(table,
                      [filename |-> filename,
                       gcs_uri |-> upload_file(filename),
                       processor_name |-> "processor",
                       processor_display_name |-> "Processor",
                       status |-> IF outcome = "ok" THEN "EXTRACTED" ELSE "ERROR",
                       extracted_data |-> extraction.fields,
                       confidence |-> extraction.confidence], now)
    IN [table |-> table1,
        entry |-> IF outcome = "ok"
                  THEN [id |-> table1[Len(table1)].id,
                        filename |-> filename,
                        gcs_uri |-> upload_file(filename),
                        processor_name |-> "processor",
                        processor_display_name |-> "Processor",
                        extracted_data |-> <<extraction.fields>>,
                        confidence |-> extraction.confidence,
                        status |-> "EXTRACTED"]
                  ELSE [filename |-> filename, error |-> "message",
                        status |-> "ERROR"]]

\* The body of the try / except for one uploaded file: the table after it
\* and the entry appended to results.  str(e), the text of the exception,
\* is not interpreted anywhere and is written "message".
DocumentResult(table, filename, outcome, extraction, now) ==
    IF outcome = "ok"
    THEN LET gcs_uri == upload_file(filename)
             table1 == save_extraction(table,
                           [filename |-> filename,
                            gcs_uri |-> gcs_uri,
                            processor_name |-> "processor",
                            processor_display_name |-> "Processor",
                            status |-> "EXTRACTED",
                            extracted_data |-> extraction.fields,
                            confidence |-> extraction.confidence], now)
         IN [table |-> table1,
             entry |-> [id |-> table1[Len(table1)].id,
                        filename |-> filename,
                        gcs_uri |-> gcs_uri,
                        processor_name |-> "processor",
                        processor_display_name |-> "Processor",
                        extracted_data |-> <<extraction.fields>>,
                        confidence |-> extraction.confidence,
                        status |-> "EXTRACTED"]]
    ELSE [table |-> table,
          entry |-> [filename |-> filename, error |-> "message",
                     status |-> "ERROR"]]

\* Variant: the loop is left at the first failure
NextFile_Abort(i, n, outcome) == IF outcome = "ok" THEN i + 1 ELSE n

\* The for loop goes on to the next file whatever the outcome
NextFile(i, n, outcome) == i + 1

StartBatch(s, n) ==
    /\ pc[s] = "idle"
    /\ pc' = [pc EXCEPT ![s] = "batch"]
    /\ batch' = [batch EXCEPT ![s] =
                    [files |-> [k \in 1..n |-> FileName(k)], i |-> 0,
                     results |-> <<>>, saved |-> 0]]
    /\ ui' = [ui EXCEPT ![s] = ""]
    /\ UNCHANGED <<extractions, clock, sap_api_url, session, send, rt, rv, up, authenticated, pd>>

ProcessFile(s, outcome, extraction) ==
    /\ pc[s] = "batch"
    /\ batch[s].i < Len(batch[s].files)
    /\ outcome = "ok" => Len(extractions) < MaxRows
    /\ LET r == DocumentResult(extractions, batch[s].files[batch[s].i + 1],
                               outcome, extraction, clock)
       IN /\ extractions' = r.table
          /\ batch' = [batch EXCEPT ![s] =
                 [files |-> batch[s].files,
                  i |-> NextFile(batch[s].i, Len(batch[s].files), outcome),
                  results |-> Append(batch[s].results, r.entry),
                  saved |-> batch[s].saved + Len(r.table) - Len(extractions)]]
    /\ UNCHANGED <<clock, sap_api_url, session, pc, send, ui, rt, rv, up, authenticated, pd>>

\* st.session_state["results"] = results: a review_result that pointed into
\* the old list keeps its dict
FinishBatch(s) ==
    /\ pc[s] = "batch"
    /\ batch[s].i >= Len(batch[s].files)
    /\ session' = [session EXCEPT ![s] =
           [results |-> batch[s].results,
            review_result |->
                IF session[s].review_result.kind = "ref"
                THEN ObjRef(Deref(session[s], session[s].review_result))
                ELSE session[s].review_result,
            review_record_id |-> session[s].review_record_id]]
    /\ pc' = [pc EXCEPT ![s] = "idle"]
    /\ batch' = [batch EXCEPT ![s] = NoBatch]
    /\ ui' = [ui EXCEPT ![s] = ""]
    /\ UNCHANGED <<extractions, clock, sap_api_url, send, rt, rv, up, authenticated, pd>>

\* The Review & Edit button of a result
ReviewEdit(s, k) ==
    /\ pc[s] = "idle"
    /\ k \in DOMAIN session[s].results
    /\ session[s].results[k].status # "ERROR"
    /\ session' = [session EXCEPT ![s] =
           [results |-> session[s].results,
            review_result |-> ResultRef(k),
            review_record_id |-> <<session[s].results[k].id>>]]
    /\ ui' = [ui EXCEPT ![s] = ""]
    /\ UNCHANGED <<extractions, clock, sap_api_url, pc, batch, send, rt, rv, up, authenticated, pd>>

----------------------------------------------------------------------------
(* auth.require_auth                                                       *)

\* The login form of require_auth, submitted with the password of
\* APP_PASSWORD; a wrong password shows an error and changes nothing
Login(s) ==
    /\ ~authenticated[s]
    /\ pc[s] = "idle"
    /\ authenticated' = [authenticated EXCEPT ![s] = TRUE]
    /\ UNCHANGED <<extractions, clock, sap_api_url, session, pc, batch, send, ui,
                   rt, rv, up, pd>>

\* The Log out button that require_auth puts in the sidebar
Logout(s) ==
    /\ authenticated[s]
    /\ pc[s] = "idle"
    /\ authenticated' = [authenticated EXCEPT ![s] = FALSE]
    /\ UNCHANGED <<extractions, clock, sap_api_url, session, pc, batch, send, ui,
                   rt, rv, up, pd>>

----------------------------------------------------------------------------
(* History page                                                            *)

\* require_auth() at the top of the page: nothing below it runs unless
\* st.session_state["authenticated"] is set
OpenInReview(s, record_id) ==
    /\ authenticated[s]
    /\ pc[s] = "idle"
    /\ \E i \in DOMAIN extractions : extractions[i].id = record_id
    /\ session' = [session EXCEPT ![s] =
           [results |-> session[s].results,
            review_result |-> NoneRef,
            review_record_id |-> <<record_id>>]]
    /\ ui' = [ui EXCEPT ![s] = ""]
    /\ UNCHANGED <<extractions, clock, sap_api_url, pc, batch, send, rt, rv, up, authenticated, pd>>

----------------------------------------------------------------------------
(* Review page                                                             *)

\* The indexes of the results that are not ERROR, in order
ValidResults(results) ==
    SelectSeq([k \in DOMAIN results |-> k],
              LAMBDA k : results[k].status # "ERROR")

\* Load results and document selector: the session state after them and
\* whether the script stopped before the editor
ReviewLoad(ss, table, sel, load_ok) ==
    LET want == ss.review_record_id # <<>> /\ ss.review_result.kind = "none"
        loaded == IF want /\ load_ok
                  THEN get_extraction(table, ss.review_record_id[1]) ELSE <<>>
        ref1 == IF loaded # <<>> THEN ObjRef(loaded[1]) ELSE ss.review_result
        stop1 == ss.results = <<>> /\ ref1.kind = "none"
        valid == ValidResults(ss.results)
        ref2 == IF ~stop1 /\ valid # <<>> THEN ResultRef(valid[sel]) ELSE ref1
    IN [ss |-> [ss EXCEPT !.review_result = ref2],
        stopped |-> stop1 \/ ref2.kind = "none"]

Selections(ss) ==
    IF ValidResults(ss.results) = <<>> THEN {1}
    ELSE DOMAIN ValidResults(ss.results)

\* A run of the page in which Send is not pressed
VisitReview(s, sel, load_ok) ==
    /\ pc[s] = "idle"
    /\ sel \in Selections(session[s])
    /\ LET l == ReviewLoad(session[s], extractions, sel, load_ok)
       IN /\ session' = [session EXCEPT ![s] = l.ss]
          /\ ui' = [ui EXCEPT ![s] = ""]
    /\ UNCHANGED <<extractions, clock, sap_api_url, pc, batch, send, rt, rv, up, authenticated, pd>>

\* Variant: the except branch lacks st.stop()
AfterSend_NoStop(failed, record_id) ==
    IF record_id = 0 THEN "idle" ELSE "update"

\* Where the Send handler goes after sap.send_purchase_order: st.stop() on
\* an exception, on to update_extraction when review_result.get("id") is
\* truthy (0 stands for None), to the end otherwise
AfterSend(failed, record_id) ==
    IF failed THEN "idle" ELSE IF record_id = 0 THEN "idle" ELSE "update"

\* Variant: reviewed_at is read from the clock after sent_at
SendUpdates_ReviewedLater(reviewed_data, now) ==
    [reviewed_data |-> reviewed_data, status |-> "SENT",
     reviewed_at |-> now + 1, sent_at |-> now]

\* Variant: the updates dict has no sent_at
SendUpdates_NoSentAt(reviewed_data, now) ==
    [reviewed_data |-> reviewed_data, status |-> "SENT", reviewed_at |-> now]

\* Variant: the handler saves the review without marking the record sent
SendUpdates_SaveOnly(reviewed_data, now) ==
    [reviewed_data |-> reviewed_data, status |-> "REVIEWED",
     reviewed_at |-> now]

\* The updates dict of the Send handler
SendUpdates(reviewed_data, now) ==
    [reviewed_data |-> reviewed_data, status |-> "SENT",
     reviewed_at |-> now, sent_at |-> now]

\* review_result["status"] = "SENT"; review_result["reviewed_data"] = ...
MarkSent(ss, reviewed_data) ==
    LET ref == ss.review_result
        rec == RecSet(RecSet(Deref(ss, ref), "status", "SENT"),
                      "reviewed_data", <<reviewed_data>>)
    IN IF ref.kind = "ref"
       THEN [ss EXCEPT !.results[ref.idx] = rec]
       ELSE [ss EXCEPT !.review_result = ObjRef(rec)]

\* The run of the page in which Send is pressed, up to the call of
\* bigquery.update_extraction
SendClick(s, sel, load_ok, edit) ==
    /\ pc[s] = "idle"
    /\ sel \in Selections(session[s])
    /\ LET l == ReviewLoad(session[s], extractions, sel, load_ok)
           review_result == Deref(l.ss, l.ss.review_result)
           failed == send_purchase_order_fails(sap_api_url)
           record_id == Get(review_result, "id", 0)
       IN /\ ~l.stopped
          /\ EditSource(review_result) # <<>>
          /\ session' = [session EXCEPT ![s] = l.ss]
          /\ pc' = [pc EXCEPT ![s] = AfterSend(failed, record_id)]
          /\ send' = [send EXCEPT ![s] =
                 IF AfterSend(failed, record_id) = "update"
                 THEN [record_id |-> record_id,
                       reviewed_data |-> BuildReviewedData(review_result, edit),
                       now |-> clock]
                 ELSE NoSend]
          /\ ui' = [ui EXCEPT ![s] =
                 IF failed THEN "Failed to send to SAP" ELSE ""]
    /\ UNCHANGED <<extractions, clock, sap_api_url, batch, rt, rv, up, authenticated, pd>>

\* bigquery.update_extraction returns or raises, and the handler ends
SendUpdate(s, ok) ==
    /\ pc[s] = "update"
    /\ IF ok
       THEN /\ extractions' = update_extraction(extractions, send[s].record_id,
                                 SendUpdates(send[s].reviewed_data, send[s].now))
            /\ session' = [session EXCEPT ![s] =
                              MarkSent(session[s], send[s].reviewed_data)]
            /\ ui' = [ui EXCEPT ![s] = "PO sent successfully"]
       ELSE /\ ui' = [ui EXCEPT ![s] = "Failed to update record"]
            /\ UNCHANGED <<extractions, session, authenticated, pd>>
    /\ pc' = [pc EXCEPT ![s] = "idle"]
    /\ send' = [send EXCEPT ![s] = NoSend]
    /\ UNCHANGED <<clock, sap_api_url, batch, rt, rv, up, authenticated, pd>>

----------------------------------------------------------------------------
(* Environment                                                             *)

\* datetime.utcnow() moves on
Tick ==
    /\ clock < MaxClock
    /\ clock' = clock + 1
    /\ UNCHANGED <<extractions, sap_api_url, session, pc, batch, send, ui, rt, rv, up, authenticated, pd>>

\* The application is restarted with SAP_API_URL set or unset: the session
\* states are lost, the table is kept
Redeploy ==
    /\ \A s \in Sessions : pc[s] = "idle"
    /\ sap_api_url' = ~sap_api_url
    /\ session' = [s \in Sessions |-> NewSession]
    /\ ui' = [s \in Sessions |-> ""]
    /\ authenticated' = [s \in Sessions |-> FALSE]
    /\ UNCHANGED <<extractions, clock, pc, batch, send, rt, rv, up, pd>>

----------------------------------------------------------------------------
(* Round trip of the two helpers over bounded properties lists             *)

PropNames == {<<>>, <<"a">>, <<"b">>, <<"a", "/", "b">>}
PropValues == {"", "x"}

\* All properties lists with exactly n nodes, each node {name, value} plus
\* a non-empty "properties" list when it has children.
RECURSIVE ListsExact(_)
RECURSIVE TreesExact(_)
TreesExact(n) ==
    IF n = 1
    THEN {[name |-> nm, value |-> v] : nm \in PropNames, v \in PropValues}
    ELSE {[name |-> x[1], value |-> x[2], properties |-> x[3]] :
              x \in PropNames \X PropValues \X ListsExact(n - 1)}
ListsExact(n) ==
    IF n = 0 THEN {<<>>}
    ELSE UNION {{<<x[1]>> \o x[2] : x \in TreesExact(k) \X ListsExact(n - k)} :
                    k \in 1..n}

\* All properties lists with at most n nodes
PropertyLists(n) == UNION {ListsExact(k) : k \in 0..n}

\* The node shape process_document builds: every node carries a confidence
RECURSIVE WithConfidence(_)
WithConfidence(properties) ==
    [i \in DOMAIN properties |->
        IF "properties" \in DOMAIN properties[i]
        THEN [name |-> properties[i].name, value |-> properties[i].value,
              confidence |-> 90,
              properties |-> WithConfidence(properties[i].properties)]
        ELSE [name |-> properties[i].name, value |-> properties[i].value,
              confidence |-> 90]]

RECURSIVE NodeCount(_)
NodeCount(properties) ==
    IF properties = <<>> THEN 0
    ELSE 1 + NodeCount(Get(Head(properties), "properties", <<>>))
           + NodeCount(Tail(properties))

\* The paths of all nodes, a path being the names from a root to the node
RECURSIVE PathSet(_, _)
PathSet(properties, prefix) ==
    UNION {{Append(prefix, properties[i].name)}
           \cup PathSet(Get(properties[i], "properties", <<>>),
                        Append(prefix, properties[i].name)) :
           i \in DOMAIN properties}

UniquePaths(properties) ==
    Cardinality(PathSet(properties, <<>>)) = NodeCount(properties)

RECURSIVE NoMixedNode(_)
NoMixedNode(properties) ==
    \A i \in DOMAIN properties :
        /\ ~(Get(properties[i], "value", "") # "" /\ HasProperties(properties[i]))
        /\ NoMixedNode(Get(properties[i], "properties", <<>>))

\* Every name is non-empty and holds no "/"
RECURSIVE PlainNames(_)
PlainNames(properties) ==
    \A i \in DOMAIN properties :
        /\ properties[i].name # <<>>
        /\ \A j \in DOMAIN properties[i].name : properties[i].name[j] # "/"
        /\ PlainNames(Get(properties[i], "properties", <<>>))

\* A properties list with each node reduced to name, value and its non-empty
\* properties
RECURSIVE NameValueOnly(_)
NameValueOnly(properties) ==
    [i \in DOMAIN properties |->
        IF HasProperties(properties[i])
        THEN [name |-> properties[i].name,
              value |-> Get(properties[i], "value", ""),
              properties |-> NameValueOnly(properties[i].properties)]
        ELSE [name |-> properties[i].name,
              value |-> Get(properties[i], "value", "")]]

\* Equality of two properties lists ignoring the order of siblings
RECURSIVE SameUpToOrder(_, _)
SameNode(a, b) ==
    /\ DOMAIN a = DOMAIN b
    /\ \A k \in DOMAIN a \ {"properties"} : a[k] = b[k]
    /\ "properties" \in DOMAIN a => SameUpToOrder(a.properties, b.properties)
SameUpToOrder(f, g) ==
    /\ Len(f) = Len(g)
    /\ \A i \in DOMAIN f : \E j \in DOMAIN g : SameNode(f[i], g[j])
    /\ \A j \in DOMAIN g : \E i \in DOMAIN f : SameNode(f[i], g[j])

RtOff == [pc |-> "off", F |-> <<>>, flat |-> <<>>, out |-> <<>>]
RvOff == [pc |-> "off"]
UpOff == [pc |-> "off"]
PdOff == [pc |-> "off"]

Flatten ==
    /\ rt.pc = "start"
    /\ rt' = [rt EXCEPT !.pc = "flat", !.flat = _flatten_properties(rt.F, <<>>)]
    /\ UNCHANGED <<extractions, clock, sap_api_url, session, pc, batch, send, ui, rv, up, authenticated, pd>>

Unflatten ==
    /\ rt.pc = "flat"
    /\ rt' = [rt EXCEPT !.pc = "done", !.out = _unflatten_to_properties(rt.flat)]
    /\ UNCHANGED <<extractions, clock, sap_api_url, session, pc, batch, send, ui, rv, up, authenticated, pd>>

----------------------------------------------------------------------------
(* The build of a reviewed forest over bounded extractions                 *)

\* The property lists an entity may carry, as the type_ of each property
PropShapes ==
    { <<>>,
      << <<"s", "k", "u">> >>,
      << <<"s", "k", "u">>, <<"q", "t", "y">> >>,
      << <<"v", "a", "l", "u", "e">> >>,
      << <<"a", "/", "b">> >> }

EntityTypes == {"po_number", "line_item"}

\* entity.mention_text of the i-th entity of a document
MentionText(i) == <<"t1", "t2", "t3", "t4">>[i]

\* entity.confidence of the i-th entity of a document, in percent; the last
\* one is unset and read as 0.0
EntityConfidence(i) == <<90, 60, 30, 0>>[i]

\* All documents of at most n entities
EntityLists(n) ==
    UNION {{[i \in 1..k |->
                [type_ |-> f[i][1], mention_text |-> MentionText(i),
                 confidence |-> EntityConfidence(i),
                 properties |->
                     [j \in DOMAIN f[i][2] |->
                         [type_ |-> f[i][2][j], mention_text |-> MentionText(i),
                          confidence |-> 80]]]] :
            f \in [1..k -> EntityTypes \X PropShapes]} : k \in 0..n}

\* process_document: the field_data dict of one entity
field_data(entity) ==
    LET data == [value |-> entity.mention_text, confidence |-> entity.confidence,
                 type |-> entity.type_]
    IN IF entity.properties # <<>>
       THEN RecSet(data, "properties",
                [j \in DOMAIN entity.properties |->
                    [name |-> entity.properties[j].type_,
                     value |-> entity.properties[j].mention_text,
                     confidence |-> entity.properties[j].confidence]])
       ELSE data

\* Variant: a later entity of a type replaces the earlier one
RECURSIVE ParseEntities_Overwrite(_, _)
ParseEntities_Overwrite(entities, fields) ==
    IF entities = <<>> THEN fields
    ELSE ParseEntities_Overwrite(Tail(entities),
             DictSet(fields, Head(entities).type_,
                     [dict |-> field_data(Head(entities))]))

\* process_document: for entity in document.entities, entities of one type
\* being gathered in a list
RECURSIVE ParseEntities(_, _)
ParseEntities(entities, fields) ==
    IF entities = <<>> THEN fields
    ELSE LET entity == Head(entities)
             field_name == entity.type_
             fields1 ==
                 IF HasKey(fields, field_name)
                 THEN IF "list" \in DOMAIN DictGet(fields, field_name)
                      THEN DictSet(fields, field_name,
                               [list |-> Append(DictGet(fields, field_name).list,
                                                field_data(entity))])
                      ELSE DictSet(fields, field_name,
                               [list |-> <<DictGet(fields, field_name).dict,
                                           field_data(entity)>>])
                 ELSE DictSet(fields, field_name, [dict |-> field_data(entity)])
         IN ParseEntities(Tail(entities), fields1)

\* total_confidence after the loop over document.entities
RECURSIVE TotalConfidence(_)
TotalConfidence(entities) ==
    IF entities = <<>> THEN 0
    ELSE Head(entities).confidence + TotalConfidence(Tail(entities))

\* Variant: the properties of the entities are counted, the entities that
\* have properties are not
overall_confidence_Leaves(entities) ==
    LET leaves(es) ==
            [i \in DOMAIN es |-> IF es[i].properties = <<>> THEN <<es[i]>>
                                 ELSE es[i].properties]
        RECURSIVE Cat(_)
        Cat(ss) == IF ss = <<>> THEN <<>> ELSE Head(ss) \o Cat(Tail(ss))
        all == Cat(leaves(entities))
    IN IF Len(all) > 0
       THEN [num |-> TotalConfidence(all), den |-> Len(all)]
       ELSE [num |-> 0, den |-> 1]

\* total_confidence / entity_count if entity_count > 0 else 0.0, as the exact
\* fraction
overall_confidence(entities) ==
    IF Len(entities) > 0
    THEN [num |-> TotalConfidence(entities), den |-> Len(entities)]
    ELSE [num |-> 0, den |-> 1]

\* document_ai.process_document on the entities the processor returns
process_document(entities) ==
    [fields |-> ParseEntities(entities, <<>>),
     confidence |-> overall_confidence(entities)]

\* One call of process_document
ProcessDocument ==
    /\ pd.pc = "start"
    /\ pd' = [pc |-> "done", entities |-> pd.entities,
              result |-> process_document(pd.entities)]
    /\ UNCHANGED <<extractions, clock, sap_api_url, session, pc, batch, send, ui,
                   rt, rv, up, authenticated>>

\* The records the Review page may be given: a result of the Process page, a
\* row of the table without reviewed_data, with a NULL extracted_data, or a
\* dict without the key
ReviewInputs(n) ==
    {[extracted_data |-> <<ParseEntities(es, <<>>)>>] : es \in EntityLists(n)}
    \cup {[extracted_data |-> <<ParseEntities(es, <<>>)>>, reviewed_data |-> <<>>] :
              es \in EntityLists(1)}
    \cup {[extracted_data |-> <<>>, reviewed_data |-> <<>>],
          [reviewed_data |-> <<>>]}

\* The page from "Extract fields for editing" to the reviewed_data of the
\* Send handler: edit_source.items() raises AttributeError when the edit
\* source is None
Reconcile(review_result, edit) ==
    IF EditSource(review_result) = <<>> THEN [raised |-> TRUE]
    ELSE [raised |-> FALSE,
          reviewed_data |-> BuildReviewedData(review_result, edit)]

\* What the user may do in the data editors before pressing Send
ReviewEdits == Edits \cup {"add_row", "delete_row"}

\* The line item groups the page shows a table for
ShownGroups(review_result) ==
    IF EditSource(review_result) = <<>> THEN <<>>
    ELSE SelectSeq(line_item_fields(EditSource(review_result)[1]),
                   LAMBDA g : item_rows(items_list(g.v)) # <<>>)

\* Send is pressed on the record under review
ReviewSend(edit) ==
    /\ rv.pc = "start"
    /\ edit = "add_row" =>
           \A i \in DOMAIN ShownGroups(rv.review_result) :
               Len(items_list(ShownGroups(rv.review_result)[i].v)) <= MaxEntities
    /\ rv' = [pc |-> "built", review_result |-> rv.review_result,
              edit |-> edit, out |-> Reconcile(rv.review_result, edit)]
    /\ UNCHANGED <<extractions, clock, sap_api_url, session, pc, batch, send, ui,
                   rt, up, authenticated, pd>>

\* review_result["reviewed_data"] = reviewed_data, and the page is run again
ReviewAgain ==
    /\ rv.pc = "built"
    /\ ~rv.out.raised
    /\ rv' = [pc |-> "start",
              review_result |-> RecSet(rv.review_result, "reviewed_data",
                                       <<rv.out.reviewed_data>>)]
    /\ UNCHANGED <<extractions, clock, sap_api_url, session, pc, batch, send, ui,
                   rt, up, authenticated, pd>>

----------------------------------------------------------------------------
(* update_extraction over bounded tables                                   *)

\* A row as save_extraction inserts it, and as the Send handler leaves it
\* once sent
StoredRow(i, sent) ==
    LET table == save_extraction(<<>>,
                     [id |-> i,
                      filename |-> FileName(i),
                      gcs_uri |-> upload_file(FileName(i)),
                      processor_name |-> "processor",
                      processor_display_name |-> "Processor",
                      status |-> "EXTRACTED",
                      extracted_data |-> <<>>,
                      confidence |-> 90], 0)
    IN IF sent
       THEN update_extraction(table, i, SendUpdates(<<>>, 1))[1]
       ELSE table[1]

\* The tables of up to n rows, their ids 1..n
StoredTables(n) ==
    UNION { { [i \in 1..k |-> StoredRow(i, sent[i])] :
                sent \in [1..k -> BOOLEAN] } : k \in 0..n }

\* The updates dicts a caller can pass: any subset of the four keys
UpdateDicts ==
    { [key \in keys |->
          IF key = "status" THEN "SENT"
          ELSE IF key = "reviewed_data" THEN <<>>
          ELSE 1] :
        keys \in SUBSET {"reviewed_data", "status", "reviewed_at", "sent_at"} }

\* One call of update_extraction: the job runs to its end and the function
\* returns None; no statement of it raises for an id that matches no row
UpdateCall ==
    /\ up.pc = "start"
    /\ up' = [pc |-> "done", table |-> up.table, record_id |-> up.record_id,
              updates |-> up.updates,
              out |-> [raised |-> FALSE,
                       table |-> update_extraction(up.table, up.record_id,
                                                   up.updates)]]
    /\ UNCHANGED <<extractions, clock, sap_api_url, session, pc, batch, send, ui,
                   rt, rv, authenticated, pd>>

----------------------------------------------------------------------------
(* Specifications                                                          *)

Init ==
    /\ extractions = <<>>
    /\ clock = 0
    /\ sap_api_url \in BOOLEAN
    /\ session = [s \in Sessions |-> NewSession]
    /\ pc = [s \in Sessions |-> "idle"]
    /\ batch = [s \in Sessions |-> NoBatch]
    /\ send = [s \in Sessions |-> NoSend]
    /\ ui = [s \in Sessions |-> ""]
    /\ authenticated = [s \in Sessions |-> FALSE]
    /\ pd = PdOff
    /\ rt = RtOff
    /\ rv = RvOff
    /\ up = UpOff

Next ==
    \/ \E s \in Sessions, n \in 1..MaxRows : StartBatch(s, n)
    \/ \E s \in Sessions, o \in Outcomes, e \in Extractions : ProcessFile(s, o, e)
    \/ \E s \in Sessions : FinishBatch(s)
    \/ \E s \in Sessions, k \in 1..MaxRows : ReviewEdit(s, k)
    \/ \E s \in Sessions, id \in 1..MaxRows : OpenInReview(s, id)
    \/ \E s \in Sessions, sel \in 1..MaxRows, ok \in BOOLEAN : VisitReview(s, sel, ok)
    \/ \E s \in Sessions, sel \in 1..MaxRows, ok \in BOOLEAN, e \in Edits :
           SendClick(s, sel, ok, e)
    \/ \E s \in Sessions, ok \in BOOLEAN : SendUpdate(s, ok)
    \/ \E s \in Sessions : Login(s)
    \/ \E s \in Sessions : Logout(s)
    \/ Tick
    \/ Redeploy

Spec == Init /\ [][Next]_vars

\* A handler that has started runs to its end; what the user does next, and
\* when, is not constrained
FairSpec ==
    /\ Spec
    /\ \A s \in Sessions :
           /\ WF_vars(\E o \in Outcomes, e \in Extractions : ProcessFile(s, o, e))
           /\ WF_vars(FinishBatch(s))
           /\ WF_vars(\E ok \in BOOLEAN : SendUpdate(s, ok))

InitFlatten ==
    /\ extractions = <<>>
    /\ clock = 0
    /\ sap_api_url = FALSE
    /\ session = [s \in Sessions |-> NewSession]
    /\ pc = [s \in Sessions |-> "idle"]
    /\ batch = [s \in Sessions |-> NoBatch]
    /\ send = [s \in Sessions |-> NoSend]
    /\ ui = [s \in Sessions |-> ""]
    /\ authenticated = [s \in Sessions |-> FALSE]
    /\ pd = PdOff
    /\ \E f \in PropertyLists(MaxNodes), c \in BOOLEAN :
           rt = [pc |-> "start", F |-> IF c THEN WithConfidence(f) ELSE f,
                 flat |-> <<>>, out |-> <<>>]
    /\ rv = RvOff
    /\ up = UpOff

\* The Process page alone, with uploads of up to MaxFiles files
NextBatch ==
    \/ \E s \in Sessions, n \in 1..MaxFiles : StartBatch(s, n)
    \/ \E s \in Sessions, o \in Outcomes, e \in Extractions : ProcessFile(s, o, e)
    \/ \E s \in Sessions : FinishBatch(s)
    \/ Tick

SpecBatch == Init /\ [][NextBatch]_vars

InitReview ==
    /\ extractions = <<>>
    /\ clock = 0
    /\ sap_api_url = FALSE
    /\ session = [s \in Sessions |-> NewSession]
    /\ pc = [s \in Sessions |-> "idle"]
    /\ batch = [s \in Sessions |-> NoBatch]
    /\ send = [s \in Sessions |-> NoSend]
    /\ ui = [s \in Sessions |-> ""]
    /\ authenticated = [s \in Sessions |-> FALSE]
    /\ pd = PdOff
    /\ rt = RtOff
    /\ up = UpOff
    /\ \E r \in ReviewInputs(MaxEntities) : rv = [pc |-> "start", review_result |-> r]

NextReview ==
    \/ \E e \in ReviewEdits : ReviewSend(e)
    \/ ReviewAgain

SpecReview == InitReview /\ [][NextReview]_vars

InitUpdate ==
    /\ extractions = <<>>
    /\ clock = 0
    /\ sap_api_url = FALSE
    /\ session = [s \in Sessions |-> NewSession]
    /\ pc = [s \in Sessions |-> "idle"]
    /\ batch = [s \in Sessions |-> NoBatch]
    /\ send = [s \in Sessions |-> NoSend]
    /\ ui = [s \in Sessions |-> ""]
    /\ authenticated = [s \in Sessions |-> FALSE]
    /\ pd = PdOff
    /\ rt = RtOff
    /\ rv = RvOff
    /\ \E t \in StoredTables(MaxRows), id \in 1..(MaxRows + 1), u \in UpdateDicts :
           up = [pc |-> "start", table |-> t, record_id |-> id, updates |-> u]

NextUpdate == UpdateCall

SpecUpdate == InitUpdate /\ [][NextUpdate]_vars

\* Two browser sessions, logged in, and one stored record that both open
\* from the History page
Reviewers == {"s1", "s2"}

InitConcurrent ==
    /\ \E e \in Extractions :
           extractions = DocumentResult(<<>>, FileName(1), "ok", e, 0).table
    /\ clock = 0
    /\ sap_api_url = FALSE
    /\ session = [s \in Reviewers |-> NewSession]
    /\ pc = [s \in Reviewers |-> "idle"]
    /\ batch = [s \in Reviewers |-> NoBatch]
    /\ send = [s \in Reviewers |-> NoSend]
    /\ ui = [s \in Reviewers |-> ""]
    /\ authenticated = [s \in Reviewers |-> TRUE]
    /\ rt = RtOff
    /\ rv = RvOff
    /\ up = UpOff
    /\ pd = PdOff

NextConcurrent ==
    \/ \E s \in Reviewers : OpenInReview(s, 1)
    \/ \E s \in Reviewers, ok \in BOOLEAN, e \in Edits : SendClick(s, 1, ok, e)
    \/ \E s \in Reviewers, ok \in BOOLEAN : SendUpdate(s, ok)
    \/ Tick

SpecConcurrent == InitConcurrent /\ [][NextConcurrent]_vars

InitProcess ==
    /\ extractions = <<>>
    /\ clock = 0
    /\ sap_api_url = FALSE
    /\ session = [s \in Sessions |-> NewSession]
    /\ pc = [s \in Sessions |-> "idle"]
    /\ batch = [s \in Sessions |-> NoBatch]
    /\ send = [s \in Sessions |-> NoSend]
    /\ ui = [s \in Sessions |-> ""]
    /\ authenticated = [s \in Sessions |-> FALSE]
    /\ rt = RtOff
    /\ rv = RvOff
    /\ up = UpOff
    /\ \E es \in EntityLists(MaxOccurrences) :
           pd = [pc |-> "start", entities |-> es]

NextProcess == ProcessDocument

SpecProcess == InitProcess /\ [][NextProcess]_vars

\* One session, logged in, and two stored records: the first was processed
\* in this session or in an earlier one, the second in an earlier one
InitHistory ==
    /\ \E e \in Extractions, mine \in BOOLEAN :
           LET d1 == DocumentResult(<<>>, FileName(1), "ok", e, 0)
               d2 == DocumentResult(d1.table, FileName(2), "ok", e, 0)
           IN /\ extractions = d2.table
              /\ session = [s \in Sessions |->
                     [NewSession EXCEPT
                          !.results = IF mine THEN <<d1.entry>> ELSE <<>>]]
    /\ clock = 0
    /\ sap_api_url = FALSE
    /\ pc = [s \in Sessions |-> "idle"]
    /\ batch = [s \in Sessions |-> NoBatch]
    /\ send = [s \in Sessions |-> NoSend]
    /\ ui = [s \in Sessions |-> ""]
    /\ authenticated = [s \in Sessions |-> TRUE]
    /\ rt = RtOff
    /\ rv = RvOff
    /\ up = UpOff
    /\ pd = PdOff

NextHistory ==
    \/ \E s \in Sessions, id \in DOMAIN extractions : OpenInReview(s, id)
    \/ \E s \in Sessions, ok \in BOOLEAN : VisitReview(s, 1, ok)
    \/ \E s \in Sessions, ok \in BOOLEAN, e \in Edits : SendClick(s, 1, ok, e)
    \/ \E s \in Sessions, ok \in BOOLEAN : SendUpdate(s, ok)
    \/ Tick

SpecHistory == InitHistory /\ [][NextHistory]_vars

NextFlatten == Flatten \/ Unflatten

SpecFlatten == InitFlatten /\ [][NextFlatten]_vars

----------------------------------------------------------------------------
(* Properties of the record lifecycle                                      *)

\* The dict the session's review_result denotes
ReviewCopy(s) == Deref(session[s], session[s].review_result)

InReview(s, i) ==
    /\ session[s].review_result.kind # "none"
    /\ "id" \in DOMAIN ReviewCopy(s)
    /\ ReviewCopy(s).id = extractions[i].id

\* C1: when sap.send_purchase_order fails in the Send handler,
\* update_extraction is not called for that attempt, no stored record changes
\* (status, reviewed_data, reviewed_at and sent_at included), and the session
\* copy of the record is what it was: the results list is untouched and a
\* review_result dict of its own is the former one or a fresh copy of the
\* stored row.
C1_SendFailureNoPartialState ==
    [][\A s \in Sessions :
          (pc[s] = "idle" /\ ui'[s] = "Failed to send to SAP") =>
              /\ pc'[s] = "idle"
              /\ send'[s] = NoSend
              /\ extractions' = extractions
              /\ session'[s].results = session[s].results
              /\ session'[s].review_result.kind = "obj" =>
                    \/ session'[s].review_result = session[s].review_result
                    \/ \E i \in DOMAIN extractions :
                           session'[s].review_result.rec = extractions[i]
      ]_vars

\* A Send on a record at EXTRACTED has just failed
C1_Witness ==
    \E s \in Sessions, i \in DOMAIN extractions :
        /\ ui[s] = "Failed to send to SAP"
        /\ InReview(s, i)
        /\ extractions[i].status = "EXTRACTED"
        /\ extractions[i].reviewed_data = <<>>

\* The four columns of a record are all written or all unwritten
C2_AllOrNone ==
    \A i \in DOMAIN extractions :
        LET r == extractions[i]
        IN /\ (r.status = "SENT") = (r.reviewed_data # <<>>)
           /\ (r.status = "SENT") = (r.reviewed_at # <<>>)
           /\ (r.status = "SENT") = (r.sent_at # <<>>)

\* A step keeps the four columns of each record or writes them all
C2_WrittenTogether ==
    \A i \in DOMAIN extractions :
        LET a == extractions[i]
            b == extractions'[i]
        IN \/ /\ b.reviewed_data = a.reviewed_data
              /\ b.status = a.status
              /\ b.reviewed_at = a.reviewed_at
              /\ b.sent_at = a.sent_at
           \/ \E s \in Sessions :
                 /\ pc[s] = "update"
                 /\ send[s].record_id = a.id
                 /\ b.reviewed_data = <<send[s].reviewed_data>>
                 /\ b.status = "SENT"
                 /\ b.reviewed_at = <<send[s].now>>
                 /\ b.sent_at = <<send[s].now>>

\* C2: in every step each stored record either keeps all of reviewed_data,
\* status, reviewed_at and sent_at, or gets all four from one pending Send:
\* that Send's reviewed forest, status SENT, and its one timestamp in both
\* reviewed_at and sent_at.  No state shows only some of the four written.
C2_SentAtomic == []C2_AllOrNone /\ [][C2_WrittenTogether]_vars

\* A Send has just written a record
C2_Witness ==
    \E s \in Sessions, i \in DOMAIN extractions :
        /\ ui[s] = "PO sent successfully"
        /\ InReview(s, i)
        /\ extractions[i].status = "SENT"
        /\ extractions[i].reviewed_at = extractions[i].sent_at

\* C3: for every stored record created_at <= reviewed_at <= sent_at, each
\* comparison being made when both timestamps are present.  (datetime.utcnow()
\* is taken to be non-decreasing.)
C3_TimestampOrder ==
    \A i \in DOMAIN extractions :
        LET r == extractions[i]
            Before(a, b) == (a # <<>> /\ b # <<>>) => a[1] <= b[1]
        IN /\ Before(r.created_at, r.reviewed_at)
           /\ Before(r.reviewed_at, r.sent_at)
           /\ Before(r.created_at, r.sent_at)

\* A record sent later than it was created
C3_Witness ==
    \E i \in DOMAIN extractions :
        /\ extractions[i].reviewed_at # <<>>
        /\ extractions[i].sent_at # <<>>
        /\ extractions[i].created_at[1] < extractions[i].reviewed_at[1]

\* C4: a stored record with status SENT has sent_at set, and a stored record
\* with status EXTRACTED has neither reviewed_at nor sent_at set.
C4_StatusTimestamps ==
    \A i \in DOMAIN extractions :
        /\ extractions[i].status = "SENT" => extractions[i].sent_at # <<>>
        /\ extractions[i].status = "EXTRACTED" =>
               /\ extractions[i].reviewed_at = <<>>
               /\ extractions[i].sent_at = <<>>

\* A record stored as SENT whose session copy is marked SENT as well
C4_Witness ==
    \E s \in Sessions, i \in DOMAIN extractions :
        /\ InReview(s, i)
        /\ ReviewCopy(s).status = "SENT"
        /\ extractions[i].status = "SENT"
        /\ extractions[i].sent_at # <<>>

\* C5: once a stored record has status SENT, no step (a further Send, a
\* failed Send, batch processing, loading from History, a restart) gives it
\* another status.
C5_SentAbsorbing ==
    [][\A i \in DOMAIN extractions :
          extractions[i].status = "SENT" => extractions'[i].status = "SENT"
      ]_vars

\* A Send on a record that is already SENT has just failed
C5_Witness ==
    \E s \in Sessions, i \in DOMAIN extractions :
        /\ ui[s] = "Failed to send to SAP"
        /\ InReview(s, i)
        /\ extractions[i].status = "SENT"

\* C6 as stated: a stored record comes to have status REVIEWED with
\* reviewed_data and reviewed_at set and sent_at unset.
C6_ReviewedReached ==
    <>(\E i \in DOMAIN extractions :
           /\ extractions[i].status = "REVIEWED"
           /\ extractions[i].reviewed_data # <<>>
           /\ extractions[i].reviewed_at # <<>>
           /\ extractions[i].sent_at = <<>>)

\* C6 as amended: no stored record ever has status REVIEWED; a reviewed
\* forest is persisted by Send alone, so a record with reviewed_data has
\* status SENT with reviewed_at and sent_at set.
C6_ReviewedNeverStored ==
    \A i \in DOMAIN extractions :
        /\ extractions[i].status # "REVIEWED"
        /\ extractions[i].reviewed_data # <<>> =>
               /\ extractions[i].status = "SENT"
               /\ extractions[i].reviewed_at # <<>>
               /\ extractions[i].sent_at # <<>>

\* A reviewed forest with an edited value has been persisted
C6_Witness ==
    \E i \in DOMAIN extractions :
        /\ extractions[i].reviewed_data # <<>>
        /\ \E j \in DOMAIN extractions[i].reviewed_data[1] :
               LET v == extractions[i].reviewed_data[1][j].v
               IN "dict" \in DOMAIN v /\ v.dict.value = "z"

\* The columns that no update may touch
IdentityColumns ==
    {"id", "filename", "gcs_uri", "processor_name", "processor_display_name",
     "extracted_data", "confidence", "created_at"}

\* C9: no step changes a stored record's id, filename, gcs_uri, processor
\* fields, extracted_data, confidence or created_at, and the steps of the Send
\* handler leave the extracted_data of the session's copies as it was.
C9_IdentityFrame ==
    [][/\ \A i \in DOMAIN extractions : \A col \in IdentityColumns :
              extractions'[i][col] = extractions[i][col]
       /\ \A s \in Sessions :
              (pc[s] = "update" \/ pc'[s] = "update") =>
                  /\ DOMAIN session'[s].results = DOMAIN session[s].results
                  /\ \A k \in DOMAIN session[s].results :
                         "extracted_data" \in DOMAIN session[s].results[k] =>
                             session'[s].results[k].extracted_data
                                 = session[s].results[k].extracted_data
                  /\ pc[s] = "update" =>
                         Deref(session'[s], session'[s].review_result).extracted_data
                             = ReviewCopy(s).extracted_data
      ]_vars

\* A record has been sent with a reviewed forest that differs from what was
\* extracted, and the session copy carries both
C9_Witness ==
    \E s \in Sessions, i \in DOMAIN extractions :
        /\ InReview(s, i)
        /\ extractions[i].status = "SENT"
        /\ extractions[i].reviewed_data # extractions[i].extracted_data
        /\ "reviewed_data" \in DOMAIN ReviewCopy(s)
        /\ ReviewCopy(s).extracted_data = extractions[i].extracted_data

----------------------------------------------------------------------------
(* Properties of batch processing                                          *)

Extracted(results) ==
    {k \in DOMAIN results : results[k].status = "EXTRACTED"}

\* C7: a document whose upload, extraction or insert failed has no row: while
\* a batch runs, the rows it has created are as many as its result entries
\* with status EXTRACTED, each such entry names a stored row of its file, an
\* ERROR entry carries no id, and no stored record has status ERROR.
C7_FailedNeverStored ==
    /\ \A i \in DOMAIN extractions : extractions[i].status # "ERROR"
    /\ \A s \in Sessions :
           pc[s] = "batch" =>
               /\ batch[s].saved = Cardinality(Extracted(batch[s].results))
               /\ \A k \in DOMAIN batch[s].results :
                      LET entry == batch[s].results[k]
                      IN IF entry.status = "EXTRACTED"
                         THEN \E i \in DOMAIN extractions :
                                  /\ extractions[i].id = entry.id
                                  /\ extractions[i].filename = entry.filename
                         ELSE "id" \notin DOMAIN entry

\* A batch in which one document failed and another was stored
C7_Witness ==
    \E s \in Sessions :
        /\ pc[s] = "batch"
        /\ batch[s].saved = 1
        /\ Len(batch[s].results) = 2
        /\ \E k \in DOMAIN batch[s].results : batch[s].results[k].status = "ERROR"

\* While a batch runs, its results are those of the files handled so far
C8_InOrder ==
    \A s \in Sessions :
        pc[s] = "batch" =>
            /\ Len(batch[s].results) = batch[s].i
            /\ batch[s].i <= Len(batch[s].files)
            /\ \A k \in DOMAIN batch[s].results :
                   LET entry == batch[s].results[k]
                   IN /\ entry.filename = batch[s].files[k]
                      /\ entry.status \in {"EXTRACTED", "ERROR"}
                      /\ entry.status = "ERROR" =>
                             DOMAIN entry = {"filename", "error", "status"}

\* The step that ends a batch stores one entry for each file
C8_EndsComplete ==
    \A s \in Sessions :
        (pc[s] = "batch" /\ pc'[s] = "idle") =>
            /\ session'[s].results = batch[s].results
            /\ Len(session'[s].results) = Len(batch[s].files)

\* C8: the documents of a batch are handled one after the other in upload
\* order: after i documents the results list has i entries, entry k being
\* that of file k, with status EXTRACTED or, for a failed document, status
\* ERROR with the filename and the message; a failure does not stop the loop,
\* and the batch ends with an entry for each of its n files.
C8_FailuresIsolated == []C8_InOrder /\ [][C8_EndsComplete]_vars

\* A finished batch whose first document failed and whose second was stored
C8_Witness ==
    \E s \in Sessions :
        /\ pc[s] = "idle"
        /\ Len(session[s].results) = 2
        /\ session[s].results[1].status = "ERROR"
        /\ session[s].results[2].status = "EXTRACTED"

----------------------------------------------------------------------------
(* Properties of the round trip                                            *)

\* C10 as stated: for a properties list F with unique paths in which no node
\* has both a non-empty value and non-empty children, unflatten(flatten(F))
\* equals F up to the order of siblings.
C10_RoundTripAsStated ==
    (rt.pc = "done" /\ UniquePaths(rt.F) /\ NoMixedNode(rt.F)) =>
        SameUpToOrder(rt.out, rt.F)

\* C10 as amended: when moreover every name is non-empty and holds no "/",
\* unflatten(flatten(F)) equals, up to the order of siblings, F with each node
\* reduced to its name, value and non-empty properties (a confidence is not
\* carried over).
C10_RoundTrip ==
    (rt.pc = "done" /\ UniquePaths(rt.F) /\ NoMixedNode(rt.F)
         /\ PlainNames(rt.F)) =>
        SameUpToOrder(rt.out, NameValueOnly(rt.F))

\* A round trip of two siblings, the first with a child, all with confidence
C10_Witness ==
    /\ rt.pc = "done"
    /\ UniquePaths(rt.F) /\ NoMixedNode(rt.F) /\ PlainNames(rt.F)
    /\ Len(rt.F) = 2
    /\ HasProperties(rt.F[1])
    /\ "confidence" \in DOMAIN rt.F[1]
    /\ rt.out # rt.F

----------------------------------------------------------------------------
(* Properties of the reviewed forest                                       *)

\* The field names of a forest
Names(forest) == {forest[i].k : i \in DOMAIN forest}

\* Equality of two dicts: the same keys with the same values, in any order
DictEq(d, e) ==
    /\ Names(d) = Names(e)
    /\ \A i \in DOMAIN d : DictGet(e, d[i].k) = d[i].v

\* Send was pressed with no cell changed and the build did not raise
BuiltUnedited == rv.pc = "built" /\ rv.edit = "none" /\ ~rv.out.raised

\* The edit source of the record under review
RvSource == EditSource(rv.review_result)[1]

\* The edit source is a prior reviewed_data
RvFromPrior ==
    /\ "reviewed_data" \in DOMAIN rv.review_result
    /\ rv.review_result.reviewed_data # <<>>
    /\ rv.review_result.reviewed_data[1] # <<>>

\* The names of the groups of the edit source that have no row
EmptyGroups ==
    {g.k : g \in {line_item_fields(RvSource)[i] :
                      i \in DOMAIN line_item_fields(RvSource)}}
        \ {ShownGroups(rv.review_result)[i].k :
               i \in DOMAIN ShownGroups(rv.review_result)}

Built == rv.pc = "built" /\ ~rv.out.raised

\* The value the user submitted for the i-th flat field
SubmittedValue(i) ==
    EditedFields(field_rows(flat_fields(RvSource)), rv.edit)[i].Value

\* C12: a flat field whose value the user did not change is omitted from the
\* reviewed forest or keeps its source node verbatim; it is not turned into a
\* node flagged edited.
C12_UntouchedNotEdited ==
    Built =>
        \A i \in DOMAIN flat_fields(RvSource) :
            LET f == flat_fields(RvSource)[i]
            IN SubmittedValue(i) = Get(f.v.dict, "value", "") =>
                   \/ f.k \notin Names(rv.out.reviewed_data)
                   \/ DictGet(rv.out.reviewed_data, f.k) = f.v

\* The table submitted for a shown group
Submitted(g) == edited_items_df(g.v, rv.edit)

\* The row a node of a group stands for
RowOf(node) ==
    IF "properties" \in DOMAIN node
    THEN _flatten_properties(node.properties, <<>>)
    ELSE <<[k |-> ValueKey, v |-> node.value]>>

\* A node holds the submitted value of every column of a row, and nothing
\* else but empty values at the implied prefixes
Reflects(node, row) ==
    /\ \A j \in DOMAIN row :
           /\ HasKey(RowOf(node), row[j].k)
           /\ DictGet(RowOf(node), row[j].k) = row[j].v
    /\ \A j \in DOMAIN RowOf(node) :
           HasKey(row, RowOf(node)[j].k) \/ RowOf(node)[j].v = ""

\* C13: a group is replaced by the submitted table: for k rows submitted the
\* group's node list has length k, in row order, node i holding exactly the
\* submitted values of row i.
C13_GroupReplaced ==
    Built =>
        \A i \in DOMAIN ShownGroups(rv.review_result) :
            LET g == ShownGroups(rv.review_result)[i]
                nodes == DictGet(rv.out.reviewed_data, g.k).list
            IN /\ Len(nodes) = Len(Submitted(g))
               /\ \A r \in DOMAIN nodes : Reflects(nodes[r], Submitted(g)[r])

\* A group of three rows, the first cell of which was changed, is submitted
C13_Witness ==
    /\ Built
    /\ rv.edit = "change"
    /\ \E i \in DOMAIN ShownGroups(rv.review_result) :
           LET g == ShownGroups(rv.review_result)[i]
               nodes == DictGet(rv.out.reviewed_data, g.k).list
           IN /\ Len(nodes) = 3
              /\ Submitted(g)[1][1].v = "z"
              /\ Submitted(g)[2][1].v # "z"
              /\ Submitted(g)[2] # Submitted(g)[3]

\* No node of a properties list carries anything but name, value, properties
RECURSIVE PlainNodes(_)
PlainNodes(properties) ==
    \A i \in DOMAIN properties :
        /\ DOMAIN properties[i] \in {{"name", "value"},
                                     {"name", "value", "properties"}}
        /\ PlainNodes(Get(properties[i], "properties", <<>>))

\* C14: no node of a reviewed forest carries a confidence: a flat field is
\* exactly {value, edited}, a group row is {value} or {properties} with nodes
\* of name, value and properties only, at every depth.
C14_NoConfidence ==
    Built =>
        \A i \in DOMAIN rv.out.reviewed_data :
            LET v == rv.out.reviewed_data[i].v
            IN IF "dict" \in DOMAIN v
               THEN DOMAIN v.dict = {"value", "edited"}
               ELSE \A r \in DOMAIN v.list :
                        \/ DOMAIN v.list[r] = {"value"}
                        \/ /\ DOMAIN v.list[r] = {"properties"}
                           /\ PlainNodes(v.list[r].properties)

\* An extraction with confidences on a flat field and on the properties of a
\* group is reviewed
C14_Witness ==
    /\ Built
    /\ ~RvFromPrior
    /\ \E i \in DOMAIN flat_fields(RvSource) :
           "confidence" \in DOMAIN flat_fields(RvSource)[i].v.dict
    /\ \E i \in DOMAIN ShownGroups(rv.review_result) :
           LET items == items_list(ShownGroups(rv.review_result)[i].v)
           IN /\ "properties" \in DOMAIN items[1]
              /\ "confidence" \in DOMAIN items[1].properties[1]

\* C15: a submitted row becomes {properties: unflatten(row)} exactly when a
\* key holds "/", or the row has more than one column, or it has no column
\* named value; otherwise it becomes {value: row["value"]}.
C15_RowClassification ==
    Built =>
        \A i \in DOMAIN ShownGroups(rv.review_result) :
            LET g == ShownGroups(rv.review_result)[i]
                nodes == DictGet(rv.out.reviewed_data, g.k).list
            IN \A r \in DOMAIN Submitted(g) :
                   LET row == Submitted(g)[r]
                       slash == \E j \in DOMAIN row :
                                    \E m \in DOMAIN row[j].k : row[j].k[m] = "/"
                       named == \E j \in DOMAIN row : row[j].k = ValueKey
                   IN IF slash \/ Len(row) > 1 \/ ~named
                      THEN nodes[r] = [properties |-> _unflatten_to_properties(row)]
                      ELSE nodes[r] = [value |-> DictGet(row, ValueKey)]

\* A row of two columns, one of them named value and none holding "/", is
\* submitted and becomes a properties node
C15_Witness ==
    /\ Built
    /\ \E i \in DOMAIN ShownGroups(rv.review_result) :
           LET g == ShownGroups(rv.review_result)[i]
               df == Submitted(g)
           IN /\ df # <<>>
              /\ Len(df[1]) = 2
              /\ HasKey(df[1], ValueKey)
              /\ "properties" \in DOMAIN DictGet(rv.out.reviewed_data, g.k).list[1]

----------------------------------------------------------------------------
(* Properties of the store and of the sink                                 *)

\* No row of the table has this id
Absent(table, record_id) == get_extraction(table, record_id) = <<>>

\* C17: an update of a record id that no row of the store has fails with an
\* error the caller sees, and leaves the store unchanged.
C17_MissingIdFails ==
    (up.pc = "done" /\ Absent(up.table, up.record_id)) =>
        /\ up.out.raised
        /\ up.out.table = up.table

\* Some key holds a non-empty value and is the path above another key
Conflict(flat_row) ==
    \E i, j \in DOMAIN flat_row :
        LET a == flat_row[i].k
            ab == flat_row[j].k
        IN /\ flat_row[i].v # ""
           /\ Len(ab) > Len(a) + 1
           /\ SubSeq(ab, 1, Len(a)) = a
           /\ ab[Len(a) + 1] = "/"

\* Some node, at any depth, has a non-empty value and a properties list
RECURSIVE HasMixed(_)
HasMixed(properties) ==
    \E i \in DOMAIN properties :
        /\ "properties" \in DOMAIN properties[i]
        /\ \/ properties[i].value # ""
           \/ HasMixed(properties[i].properties)

\* C18 as stated: unflattening a row with a value and children at one path
\* (keys a, non-empty, and a/b) yields an error instead of a node: no node
\* with both a value and children is built.
C18_ConflictRejected ==
    (rt.pc = "done" /\ Conflict(rt.flat)) => ~HasMixed(rt.out)

\* C18 as amended: unflattening never fails; a row with keys a, non-empty,
\* and a/b yields a node that carries the value of a and a properties list
\* with b, and every key of the row is a path of the result with its value.
C18_ConflictAccumulated ==
    rt.pc = "done" =>
        /\ Conflict(rt.flat) => HasMixed(rt.out)
        /\ \A j \in DOMAIN rt.flat :
               /\ HasKey(_flatten_properties(rt.out, <<>>), rt.flat[j].k)
               /\ DictGet(_flatten_properties(rt.out, <<>>), rt.flat[j].k)
                      = rt.flat[j].v

\* A row with a valued key above another key has been unflattened
C18_Witness ==
    /\ rt.pc = "done"
    /\ Conflict(rt.flat)
    /\ HasMixed(rt.out)
    /\ \E i \in DOMAIN rt.out :
           /\ rt.out[i].value # ""
           /\ "properties" \in DOMAIN rt.out[i]

\* C19 as stated: with no SAP endpoint set, send_purchase_order fails: no
\* Send gets as far as the update of the record or reports success.
C19_UnconfiguredFails ==
    ~sap_api_url =>
        \A s \in Sessions :
            /\ pc[s] # "update"
            /\ ui[s] # "PO sent successfully"

\* C19 as amended: send_purchase_order fails exactly when an SAP endpoint is
\* set (live mode is not implemented) and succeeds as a mock when none is
\* set; while the endpoint is set, so that every send fails, no stored
\* record changes.
C19_ConfiguredFails ==
    /\ [](\A s \in Sessions :
              /\ ui[s] = "Failed to send to SAP" => sap_api_url
              /\ (pc[s] = "update" \/ ui[s] = "PO sent successfully")
                     => ~sap_api_url)
    /\ [][sap_api_url =>
              \A i \in DOMAIN extractions : extractions'[i] = extractions[i]]_vars

\* A record was sent by the mock, the endpoint was then set, and a Send on
\* the record has failed
C19_Witness ==
    /\ sap_api_url
    /\ \E s \in Sessions, i \in DOMAIN extractions :
           /\ ui[s] = "Failed to send to SAP"
           /\ InReview(s, i)
           /\ extractions[i].status = "SENT"

\* reviewed_data is absent, and extracted_data is empty, absent or null
NothingToReview(review_result) ==
    /\ Get(review_result, "reviewed_data", <<>>) = <<>>
    /\ Get(review_result, "extracted_data", << <<>> >>) \in {<<>>, << <<>> >>}

\* C20: the build of the reviewed forest never raises for missing inputs:
\* with reviewed_data absent and extracted_data empty, absent or null, the
\* page run with Send pressed completes and yields the empty forest.
C20_EmptyNeverRaises ==
    (rv.pc = "built" /\ NothingToReview(rv.review_result)) =>
        /\ ~rv.out.raised
        /\ rv.out.reviewed_data = <<>>

----------------------------------------------------------------------------
(* Properties of sessions, pages and process_document                      *)

\* C21: two sessions that Send the same record are not coordinated: an
\* update_extraction that completes writes the reviewed_data, reviewed_at
\* and sent_at of its own session whatever the other session has written,
\* so the stored values are those of the update applied last.
C21_LastWriterWins ==
    [][\A s \in Reviewers :
          (pc[s] = "update" /\ ui'[s] = "PO sent successfully") =>
              /\ Len(extractions') = Len(extractions)
              /\ \A i \in DOMAIN extractions :
                     IF extractions[i].id = send[s].record_id
                     THEN /\ extractions'[i].status = "SENT"
                          /\ extractions'[i].reviewed_data = <<send[s].reviewed_data>>
                          /\ extractions'[i].reviewed_at = <<send[s].now>>
                          /\ extractions'[i].sent_at = <<send[s].now>>
                     ELSE extractions'[i] = extractions[i]
      ]_vars

\* Both sessions have sent the record, with different reviewed data, and the
\* store holds the values of s1
C21_Witness ==
    /\ ui["s1"] = "PO sent successfully"
    /\ ui["s2"] = "PO sent successfully"
    /\ InReview("s1", 1)
    /\ InReview("s2", 1)
    /\ ReviewCopy("s1").reviewed_data # ReviewCopy("s2").reviewed_data
    /\ extractions[1].reviewed_data = ReviewCopy("s1").reviewed_data
    /\ extractions[1].sent_at = <<0>>

\* The concatenation of a sequence of sequences
RECURSIVE Concat(_)
Concat(ss) == IF ss = <<>> THEN <<>> ELSE Head(ss) \o Concat(Tail(ss))

\* The sum of the confidences of a sequence of nodes
RECURSIVE SumConfidence(_)
SumConfidence(nodes) ==
    IF nodes = <<>> THEN 0
    ELSE Head(nodes).confidence + SumConfidence(Tail(nodes))

\* The entity nodes of a forest: a single node, or the items of a list
EntityNodes(fields) ==
    Concat([i \in DOMAIN fields |->
               IF "dict" \in DOMAIN fields[i].v THEN <<fields[i].v.dict>>
               ELSE fields[i].v.list])

\* The leaves of a forest: the properties of the nodes that have some, and
\* the other nodes themselves
LeafNodes(fields) ==
    Concat([i \in DOMAIN EntityNodes(fields) |->
               IF "properties" \in DOMAIN EntityNodes(fields)[i]
               THEN EntityNodes(fields)[i].properties
               ELSE <<EntityNodes(fields)[i]>>])

\* A fraction is the mean of the confidences of the nodes, 0 for no nodes
IsMean(q, nodes) ==
    IF nodes = <<>> THEN q.num = 0
    ELSE q.num * Len(nodes) = SumConfidence(nodes) * q.den

OfType(entities, name) == SelectSeq(entities, LAMBDA e : e.type_ = name)

\* C24: in the forest process_document builds, a type name maps to a single
\* node when exactly one entity of the type was reported, and to a list of
\* length m holding the entities in reported order when m >= 2 were; a type
\* that was not reported is no name of the forest.
C24_SingleOrList ==
    pd.pc = "done" =>
        \A name \in EntityTypes :
            LET es == OfType(pd.entities, name)
                fields == pd.result.fields
            IN /\ Len(es) = 0 => name \notin Names(fields)
               /\ Len(es) = 1 =>
                      /\ name \in Names(fields)
                      /\ DictGet(fields, name) = [dict |-> field_data(es[1])]
               /\ Len(es) >= 2 =>
                      /\ name \in Names(fields)
                      /\ DictGet(fields, name)
                             = [list |-> [j \in DOMAIN es |-> field_data(es[j])]]

\* A document with one entity of a type between two of another type
C24_Witness ==
    /\ pd.pc = "done"
    /\ Len(pd.entities) = 3
    /\ pd.entities[1].type_ = pd.entities[3].type_
    /\ pd.entities[1].type_ # pd.entities[2].type_
    /\ "dict" \in DOMAIN DictGet(pd.result.fields, pd.entities[2].type_)
    /\ Len(DictGet(pd.result.fields, pd.entities[1].type_).list) = 2

\* C23: every page calls require_auth before rendering, so in a session
\* whose authenticated flag is not set no page action is executed: no batch
\* extraction and no Send starts, and no stored record changes.
C23_NoActionUnauthenticated ==
    [][\A s \in Sessions :
          (~authenticated[s] /\ pc[s] = "idle") =>
              /\ pc'[s] = "idle"
              /\ ui'[s] \notin {"Failed to send to SAP", "PO sent successfully"}
              /\ extractions' = extractions
      ]_vars

\* C25: re-sending is not guarded: a Send on a record that is already SENT
\* gets through send_purchase_order again, and its update overwrites the
\* record's reviewed_data, reviewed_at and sent_at with the new values while
\* the status stays SENT.
C25_ResendOverwrites ==
    [][\A s \in Sessions :
          (pc[s] = "update" /\ ui'[s] = "PO sent successfully") =>
              \A i \in DOMAIN extractions :
                  (extractions[i].id = send[s].record_id
                       /\ extractions[i].status = "SENT") =>
                      /\ extractions'[i].status = "SENT"
                      /\ extractions'[i].reviewed_data = <<send[s].reviewed_data>>
                      /\ extractions'[i].reviewed_at = <<send[s].now>>
                      /\ extractions'[i].sent_at = <<send[s].now>>
      ]_vars

\* send_purchase_order has returned a second time for a record sent earlier,
\* with other reviewed data, and the update is about to be applied
C25_Witness ==
    \E s \in Sessions, i \in DOMAIN extractions :
        /\ pc[s] = "update"
        /\ extractions[i].id = send[s].record_id
        /\ extractions[i].status = "SENT"
        /\ extractions[i].sent_at = <<0>>
        /\ send[s].now = 1
        /\ extractions[i].reviewed_data # <<send[s].reviewed_data>>

\* C26: sink and store never diverge: when the Send handler ends after
\* send_purchase_order returned success for a record with an id, the stored
\* record has status SENT with reviewed_data and sent_at written, also when
\* update_extraction failed.
C26_SinkStoreAgree ==
    [][\A s \in Sessions :
          (pc[s] = "update" /\ pc'[s] = "idle") =>
              \A i \in DOMAIN extractions :
                  extractions[i].id = send[s].record_id =>
                      /\ extractions'[i].status = "SENT"
                      /\ extractions'[i].reviewed_data = <<send[s].reviewed_data>>
                      /\ extractions'[i].sent_at # <<>>
      ]_vars

\* C27: after Open in Review for a record, the record the Review page shows
\* and sends is that record, also when the session holds results of an
\* earlier batch.
C27_OpenedRecordReviewed ==
    \A s \in Sessions :
        (session[s].review_record_id # <<>>
             /\ session[s].review_result.kind # "none") =>
            /\ ReviewCopy(s).id = session[s].review_record_id[1]
            /\ pc[s] = "update" =>
                   send[s].record_id = session[s].review_record_id[1]

\* C28: review preserves the shape of each top-level field: every name of
\* the reviewed forest is a name of the edit source, mapped to a single node
\* where the source has a single node (with properties or not) and to a list
\* where the source has a list.
C28_ShapePreserved ==
    Built =>
        \A i \in DOMAIN rv.out.reviewed_data :
            LET name == rv.out.reviewed_data[i].k
                node == rv.out.reviewed_data[i].v
            IN /\ name \in Names(RvSource)
               /\ IF "dict" \in DOMAIN DictGet(RvSource, name)
                  THEN "dict" \in DOMAIN node
                  ELSE "list" \in DOMAIN node

\* C29: in every review round, the field names of the reviewed forest are
\* the field names of the edit source of the round: no field disappears,
\* a group that is an empty list included.
C29_NamesPreserved ==
    Built => Names(rv.out.reviewed_data) = Names(RvSource)

\* C30: when nothing is edited, a group item that carries a value and a
\* properties list keeps its value: the node of the reviewed forest at its
\* place has that value.
C30_ItemValueKept ==
    (Built /\ rv.edit = "none") =>
        \A i \in DOMAIN ShownGroups(rv.review_result) :
            LET g == ShownGroups(rv.review_result)[i]
                items == items_list(g.v)
                nodes == DictGet(rv.out.reviewed_data, g.k).list
            IN \A r \in DOMAIN items :
                   ("value" \in DOMAIN items[r] /\ "properties" \in DOMAIN items[r]) =>
                       /\ r \in DOMAIN nodes
                       /\ "value" \in DOMAIN nodes[r]
                       /\ nodes[r].value = items[r].value

====
